---- MODULE Spec2Model ----
(***************************************************************************)
(* Model of src/main.py: the paginated submission scraper                  *)
(* (TZHSOJScraper), the per-job checker and the batch driver main.         *)
(*                                                                         *)
(* Text is modelled as a sequence of one-character strings, so that        *)
(* concatenation (username generation, file names), decimal formatting     *)
(* (str), decimal parsing (int) and whitespace stripping (get_text) are    *)
(* computed rather than assumed.                                           *)
(***************************************************************************)
EXTENDS Integers, Sequences, FiniteSets, TLC

VARIABLES
    argv,              \* sys.argv, a sequence of texts
    remote,            \* the judge: which answers it may give to a request
    mode,              \* entry point of the run: "batch", "collect" or "parse"
    pc,                \* control position
    usernameFormat,    \* main: sys.argv[1]
    counts,            \* main: int(sys.argv[2])
    pids,              \* main: sys.argv[3:]
    i,                 \* main: index of the outer loop
    j,                 \* main: position of the inner loop in pids
    username,          \* main / checker: current username
    pid,               \* checker / fetch_submissions: current problem id
    max_pages,         \* fetch_submissions: page cap of the call
    page,              \* fetch_submissions: page index
    submissions,       \* fetch_submissions: accumulator, then checker's list
    response,          \* fetch_submissions: last response
    page_submissions,  \* fetch_submissions: records parsed from the last page
    requests,          \* history: the params of every GET of the current call
    received,          \* history: the outcome of every GET of the current call
    delays,            \* history: number of time.sleep(1) of the current call
    result,            \* module-level dict, insertion ordered: <<key, list>> pairs
    jobs,              \* history: one entry per finished collection of a batch
    written,           \* history: file names passed to save_to_file, in order
    saved,             \* history: the save_to_file call of the current job, if made
    xlsx,              \* content of result.xlsx, NoSheet while not written
    usage,             \* TRUE once the usage line was printed
    runs,              \* number of times main was entered
    prevGrid           \* history: result at the end of the previous run of main

vars == <<argv, remote, mode, pc, usernameFormat, counts, pids, i, j, username,
          pid, max_pages, page, submissions, response, page_submissions,
          requests, received, delays, result, jobs, written, saved, xlsx, usage,
          runs, prevGrid>>

mainVars == <<usernameFormat, counts, pids, i, j, username>>
outVars  == <<result, jobs, written, saved, xlsx, usage, runs, prevGrid>>

(***************************************************************************)
(* Bounds of the model.                                                    *)
(***************************************************************************)
MaxPages == 5        \* largest max_pages of a direct call of fetch_submissions
MaxRows == 3         \* most data rows of a page handed to the parser
MaxCount == 2        \* largest member count of a batch
MaxPids == 2         \* most problem ids of a batch
MaxMembers == 12     \* largest member count of the username runs
MaxLead == 1         \* most leading "continue" pages of a scripted judge
MaxRerunCount == 2   \* largest member count of a repeated batch
MaxRuns == 2         \* number of runs of main in one process

(***************************************************************************)
(* Program constants.                                                      *)
(***************************************************************************)
PageCap == 5         \* checker: max_pages=5
MinCols == 7         \* parse_submission_page: len(cols) < 7
ArgvMin == 4         \* main: len(sys.argv) < 4
PadBelow == 9        \* main: i > 9

\* Cap of the request history: above every page cap of the model, so the
\* code, which stops at max_pages, never reaches it.
FetchBudget == (IF MaxPages > PageCap THEN MaxPages ELSE PageCap) + 1

(***************************************************************************)
(* Text.                                                                   *)
(***************************************************************************)
DigitChars == <<"0", "1", "2", "3", "4", "5", "6", "7", "8", "9">>

\* str(n) for n >= 0
RECURSIVE Str(_)
Str(n) ==
    IF n < 10 THEN <<DigitChars[n + 1]>>
    ELSE Str(n \div 10) \o <<DigitChars[(n % 10) + 1]>>

DigitVal(c) == CHOOSE d \in 0..9 : DigitChars[d + 1] = c

\* int(s) for a text of decimal digits
RECURSIVE ParseInt(_)
ParseInt(s) ==
    IF s = <<>> THEN 0
    ELSE ParseInt(SubSeq(s, 1, Len(s) - 1)) * 10 + DigitVal(s[Len(s)])

Whitespace == {" ", "\n", "\t"}

RECURSIVE StripLeft(_)
StripLeft(s) ==
    IF s # <<>> /\ Head(s) \in Whitespace THEN StripLeft(Tail(s)) ELSE s

RECURSIVE StripRight(_)
StripRight(s) ==
    IF s # <<>> /\ s[Len(s)] \in Whitespace
    THEN StripRight(SubSeq(s, 1, Len(s) - 1)) ELSE s

\* cell.get_text(strip=True) of a cell holding one text node
GetText(cell) == StripRight(StripLeft(cell))

Sentinel == <<"1", "0", "0", "A", "c", "c", "e", "p", "t", "e", "d">>
NotAvailable == <<"N", "/", "A">>

(***************************************************************************)
(* Pages of the judge.  A page is the part of the markup the code reads:   *)
(* whether there is a table, the rows (tr) of the first table, each row    *)
(* the sequence of its td cells, and the anchors (a) of the page.          *)
(***************************************************************************)
TimeStamp == <<"9", ":", "0", "0">>
ProblemText == <<"P", "1">>
UserText == <<"s", "0", "1">>
LangText == <<"c">>
AcceptedText == <<"A", "c", "c", "e", "p", "t", "e", "d">>
WrongText == <<"W", "A">>
FullScore == <<"1", "0", "0">>
NoScore == <<"0">>
MsText == <<"1", "m", "s">>
MemText == <<"1", "M">>

\* 8 cells, the first one the sentinel surrounded by whitespace
RowHit == << <<" ">> \o Sentinel \o <<"\n">>, ProblemText, UserText, LangText,
             AcceptedText, FullScore, MsText, MemText >>
\* 7 cells, an accepted full-score submission with a time stamp in cell 0
RowMiss == << TimeStamp, ProblemText, UserText, LangText, AcceptedText,
              <<" ">> \o FullScore, MsText >>
\* 6 cells, the sentinel in cell 0
RowShort == << Sentinel, ProblemText, UserText, LangText, WrongText, NoScore >>
\* a row without td cells, such as a header row of th cells
RowNone == << >>

RowSet == {RowHit, RowMiss, RowShort, RowNone}

RowLists(n) == UNION {[1..k -> RowSet] : k \in 0..n}

NextOn == [text |-> "Next", class |-> {}]
NextOff == [text |-> "Next", class |-> {"page-link", "disabled"}]
PrevOn == [text |-> "Prev", class |-> {}]
NextPadded == [text |-> " Next ", class |-> {}]

\* the anchors of a page, in document order
AnchorLists ==
    {<<>>, <<PrevOn>>, <<PrevOn, NextOn>>, <<PrevOn, NextOff>>, <<NextPadded>>,
     <<NextOff, PrevOn, NextOn>>, <<NextOn, PrevOn, NextOff>>}

NoTablePage(a) == [table |-> FALSE, rows |-> <<>>, anchors |-> a]
TablePage(rs, a) == [table |-> TRUE, rows |-> rs, anchors |-> a]

\* pages handed to the parser alone: a header row and up to n data rows, a
\* table without rows, no table at all
ParsePages(n) ==
    {NoTablePage(a) : a \in AnchorLists}
    \cup {TablePage(<<>>, a) : a \in AnchorLists}
    \cup {TablePage(<<RowNone>> \o d, a) : d \in RowLists(n), a \in AnchorLists}

\* the outcome of session.get + raise_for_status: a page, or an exception of
\* the named class (ok = FALSE)
Ok(html) == [ok |-> TRUE, error |-> "", html |-> html]
Raised(cls) == [ok |-> FALSE, error |-> cls, html |-> NoTablePage(<<>>)]
Failure == Raised("ConnectionError")

\* requests.exceptions: the classes session.get and raise_for_status raise,
\* all of them subclasses of RequestException
RequestExceptions == {"ConnectionError", "Timeout", "HTTPError"}

\* answers of the judge to a direct call of fetch_submissions
CollectPool ==
    {Raised(c) : c \in {"Timeout", "HTTPError"}}
    \cup {Ok(NoTablePage(a)) : a \in {<<>>, <<PrevOn, NextOn>>}}
    \cup {Ok(TablePage(<<RowNone>> \o d, a)) :
            d \in RowLists(1), a \in {<<>>, <<PrevOn, NextOn>>, <<PrevOn, NextOff>>}}

ContinuePage == Ok(TablePage(<<RowNone, RowMiss>>, <<PrevOn, NextOn>>))

\* answers of the judge in a batch
BatchPool ==
    { Failure,
      Ok(NoTablePage(<<>>)),
      ContinuePage,
      Ok(TablePage(<<RowNone, RowHit>>, <<PrevOn, NextOn>>)),
      Ok(TablePage(<<RowNone, RowShort, RowHit>>, <<PrevOn, NextOff>>)),
      Ok(TablePage(<<RowNone, RowMiss>>, <<>>)) }

\* answers of the judge in the runs that generate many usernames
NamesPool == {Failure, ContinuePage}

\* a scripted judge answers ContinuePage for the first lead pages of a job and
\* tail for every later page
Scripts == [lead : 0..MaxLead, tail : BatchPool]
ScriptAnswer(s, k) == IF k <= s.lead THEN ContinuePage ELSE s.tail

FreeRemote(pool) == [fixed |-> FALSE, pool |-> pool, script |-> <<>>]
FixedRemote(f) == [fixed |-> TRUE, pool |-> {}, script |-> f]

\* the answers the judge may give to GET /record?uidOrName=u&pid=p&page=k
Answers(u, p, k) ==
    IF remote.fixed THEN {ScriptAnswer(remote.script[<<u, p>>], k)}
    ELSE remote.pool

(***************************************************************************)
(* TZHSOJScraper.parse_submission_page                                     *)
(***************************************************************************)
\* table.find_all('tr')[1:]
DataRows(rows) == SubSeq(rows, 2, Len(rows))

\* the dict built from the cells of one row; the row has at least 7 cells
MakeRecord(cols) ==
    [time        |-> GetText(cols[1]),
     problem     |-> GetText(cols[2]),
     user        |-> GetText(cols[3]),
     language    |-> GetText(cols[4]),
     status      |-> GetText(cols[5]),
     score       |-> GetText(cols[6]),
     time_used   |-> GetText(cols[7]),
     memory_used |-> IF Len(cols) > 7 THEN GetText(cols[8]) ELSE NotAvailable]

\* the try block raises (IndexError) exactly when a cell 0..6 is missing
RowRaises(cols) == Len(cols) < 7

\* the records contributed by one row: none when the row is skipped by the
\* length test or by the except clause
RowRecords(cols) ==
    IF Len(cols) < MinCols THEN <<>>
    ELSE IF RowRaises(cols) THEN <<>>
    ELSE <<MakeRecord(cols)>>

\* the loop leaving at the first short row
RECURSIVE ParseRowsBreak(_)
ParseRowsBreak(rows) ==
    IF rows = <<>> THEN <<>>
    ELSE IF Len(Head(rows)) < MinCols THEN <<>>
    ELSE <<MakeRecord(Head(rows))>> \o ParseRowsBreak(Tail(rows))

RECURSIVE ParseRows(_)
ParseRows(rows) ==
    IF rows = <<>> THEN <<>>
    ELSE RowRecords(Head(rows)) \o ParseRows(Tail(rows))

parse_submission_page(html) ==
    IF ~html.table THEN <<>> ELSE ParseRows(DataRows(html.rows))

(***************************************************************************)
(* TZHSOJScraper.has_next_page                                             *)
(***************************************************************************)
\* soup.find('a', string='Next'): the first anchor whose text is "Next", or
\* 0 for None
FindNext(anchors) ==
    IF \E k \in 1..Len(anchors) : anchors[k].text = "Next"
    THEN CHOOSE k \in 1..Len(anchors) :
            /\ anchors[k].text = "Next"
            /\ \A m \in 1..(k - 1) : anchors[m].text # "Next"
    ELSE 0

\* the class of the anchor found is not looked at
has_next_ignoring_class(html) == FindNext(html.anchors) # 0

has_next_page(html) ==
    LET k == FindNext(html.anchors)
    IN  k # 0 /\ "disabled" \notin html.anchors[k].class

(***************************************************************************)
(* TZHSOJScraper.fetch_submissions                                         *)
(***************************************************************************)
LoopCondOffByOne(p, cap) == p <= cap + 1

LoopCond(p, cap) == p <= cap

\* except requests.exceptions.RequestException
CatchesOnlyHTTPError(cls) == cls = "HTTPError"

CatchesNothing(cls) == FALSE

Catches(cls) == cls \in RequestExceptions

\* if not page_submissions
StopOnEmptyNever(ps) == FALSE

StopOnEmpty(ps) == ps = <<>>

NextPageStuck(p) == p

NextPageSkip(p) == p + 2

\* submissions.extend(page_submissions)
AccumulateReplace(subs, ps) == ps

Accumulate(subs, ps) == subs \o ps

NextPage(p) == p + 1

Params(u, p, k) == [uidOrName |-> u, pid |-> p, page |-> k]

collectVars == <<max_pages, page, submissions, response, page_submissions,
                 requests, received, delays>>

\* while page <= max_pages
WhileTest ==
    /\ pc = "while"
    /\ pc' = IF LoopCond(page, max_pages) THEN "get" ELSE "return"
    /\ UNCHANGED <<argv, remote, mode, mainVars, pid, collectVars, outVars>>

\* self.session.get(...); response.raise_for_status()
Get ==
    /\ pc = "get"
    /\ Len(requests) < FetchBudget
    /\ \E r \in Answers(username, pid, page) :
          /\ response' = r
          /\ received' = Append(received, r)
          /\ pc' = IF r.ok THEN "parse"
                   ELSE IF Catches(r.error) THEN "except" ELSE "raised"
    /\ requests' = Append(requests, Params(username, pid, page))
    /\ UNCHANGED <<argv, remote, mode, mainVars, pid, max_pages, page,
                   submissions, page_submissions, delays, outVars>>

\* except requests.exceptions.RequestException: log, break
Except ==
    /\ pc = "except"
    /\ pc' = "return"
    /\ UNCHANGED <<argv, remote, mode, mainVars, pid, collectVars, outVars>>

\* page_submissions = self.parse_submission_page(response.text);
\* if not page_submissions: break
ParsePage ==
    /\ pc = "parse"
    /\ page_submissions' = parse_submission_page(response.html)
    /\ pc' = IF StopOnEmpty(page_submissions') THEN "return" ELSE "extend"
    /\ UNCHANGED <<argv, remote, mode, mainVars, pid, max_pages, page,
                   submissions, response, requests, received, delays, outVars>>

\* submissions.extend(page_submissions);
\* if not self.has_next_page(response.text): break;  page += 1
Extend ==
    /\ pc = "extend"
    /\ submissions' = Accumulate(submissions, page_submissions)
    /\ IF has_next_page(response.html)
       THEN /\ page' = NextPage(page)
            /\ pc' = "sleep"
       ELSE /\ page' = page
            /\ pc' = "return"
    /\ UNCHANGED <<argv, remote, mode, mainVars, pid, max_pages, response,
                   page_submissions, requests, received, delays, outVars>>

\* time.sleep(1)
Sleep ==
    /\ pc = "sleep"
    /\ delays' = delays + 1
    /\ pc' = "while"
    /\ UNCHANGED <<argv, remote, mode, mainVars, pid, max_pages, page,
                   submissions, response, page_submissions, requests, received,
                   outVars>>

\* return submissions, to the direct caller
ReturnToCaller ==
    /\ pc = "return"
    /\ mode = "collect"
    /\ pc' = "returned"
    /\ UNCHANGED <<argv, remote, mode, mainVars, pid, collectVars, outVars>>

(***************************************************************************)
(* A direct call fetch_submissions(username, pid, max_pages).              *)
(***************************************************************************)
NoResponse == Failure

NoSheet == [saved |-> FALSE, index |-> <<>>, columns |-> <<>>, data |-> <<>>]

InitCollect ==
    /\ argv = <<>>
    /\ remote = FreeRemote(CollectPool)
    /\ mode = "collect"
    /\ pc = "while"
    /\ usernameFormat = <<>>
    /\ counts = 0
    /\ pids = <<>>
    /\ i = 0
    /\ j = 0
    /\ username = UserText
    /\ pid = ProblemText
    /\ max_pages \in (0 - 1)..MaxPages
    /\ page = 1
    /\ submissions = <<>>
    /\ response = NoResponse
    /\ page_submissions = <<>>
    /\ requests = <<>>
    /\ received = <<>>
    /\ delays = 0
    /\ result = <<>>
    /\ jobs = <<>>
    /\ written = <<>>
    /\ saved = <<>>
    /\ xlsx = NoSheet
    /\ usage = FALSE
    /\ runs = 0
    /\ prevGrid = <<>>

NextCollect ==
    \/ WhileTest
    \/ Get
    \/ Except
    \/ ParsePage
    \/ Extend
    \/ Sleep
    \/ ReturnToCaller

SpecCollect == InitCollect /\ [][NextCollect]_vars

\* the loop is sequential code: whenever a step is possible it is taken
FairCollect == InitCollect /\ [][NextCollect]_vars /\ WF_vars(NextCollect)

(***************************************************************************)
(* A direct call parse_submission_page(html): the parser applied to a      *)
(* page of ParsePages.                                                     *)
(***************************************************************************)
InitParse ==
    /\ argv = <<>>
    /\ remote = FreeRemote({})
    /\ mode = "parse"
    /\ pc = "parse"
    /\ usernameFormat = <<>>
    /\ counts = 0
    /\ pids = <<>>
    /\ i = 0
    /\ j = 0
    /\ username = UserText
    /\ pid = ProblemText
    /\ max_pages = PageCap
    /\ page = 1
    /\ submissions = <<>>
    /\ response \in {Ok(h) : h \in ParsePages(MaxRows)}
    /\ page_submissions = <<>>
    /\ requests = <<>>
    /\ received = <<>>
    /\ delays = 0
    /\ result = <<>>
    /\ jobs = <<>>
    /\ written = <<>>
    /\ saved = <<>>
    /\ xlsx = NoSheet
    /\ usage = FALSE
    /\ runs = 0
    /\ prevGrid = <<>>

\* the parser, then has_next_page on the same page when it has records
NextParse ==
    \/ ParsePage
    \/ Extend

SpecParse == InitParse /\ [][NextParse]_vars

(***************************************************************************)
(* The module-level dict result.  A dict keeps its keys in insertion       *)
(* order; assigning to an existing key keeps the key's place.              *)
(***************************************************************************)
DictKeys(d) == [n \in 1..Len(d) |-> d[n][1]]
DictHas(d, k) == \E n \in 1..Len(d) : d[n][1] = k
DictGet(d, k) == d[CHOOSE n \in 1..Len(d) : d[n][1] = k][2]
DictSet(d, k, v) ==
    IF DictHas(d, k)
    THEN [n \in 1..Len(d) |-> IF d[n][1] = k THEN <<k, v>> ELSE d[n]]
    ELSE Append(d, <<k, v>>)

\* result[username] = []
ResetEntryKeepOld(d, u) == IF DictHas(d, u) THEN d ELSE DictSet(d, u, <<>>)

ResetEntry(d, u) == DictSet(d, u, <<>>)

\* result[username].append(bit)
AppendOutcomeFront(d, u, bit) == DictSet(d, u, <<bit>> \o DictGet(d, u))

AppendOutcomeReplace(d, u, bit) == DictSet(d, u, <<bit>>)

AppendOutcomeEveryKey(d, u, bit) ==
    [n \in 1..Len(d) |-> <<d[n][1], Append(d[n][2], bit)>>]

AppendOutcome(d, u, bit) == DictSet(d, u, Append(DictGet(d, u), bit))

(***************************************************************************)
(* checker                                                                 *)
(***************************************************************************)
\* if sub['time'] == "100Accepted"
MatchesStatusAndScore(sub) == sub.status = AcceptedText /\ sub.score = FullScore

Matches(sub) == sub.time = Sentinel

\* the for / else over the submissions: 1 at the first match, else 0
RECURSIVE Outcome(_)
Outcome(subs) ==
    IF subs = <<>> THEN 0
    ELSE IF Matches(Head(subs)) THEN 1
    ELSE Outcome(Tail(subs))

\* history entry of a finished collection: whose it is, and whether the
\* list it returned holds a record whose 'time' is "100Accepted"
JobEntry(u, p, subs) ==
    [username |-> u, pid |-> p,
     matched |-> \E k \in 1..Len(subs) : subs[k].time = Sentinel]

FilePrefix == <<"s", "u", "b", "m", "i", "s", "s", "i", "o", "n", "s", "_">>
FileSuffix == <<".", "j", "s", "o", "n">>

\* f"submissions_{username}_{pid}.json"
FileName(u, p) == FilePrefix \o u \o <<"_">> \o p \o FileSuffix

\* the list handed to save_to_file: cut after the first match
SavePayloadUpToMatch(subs) ==
    IF \E k \in 1..Len(subs) : Matches(subs[k])
    THEN SubSeq(subs, 1, CHOOSE k \in 1..Len(subs) :
                            /\ Matches(subs[k])
                            /\ \A m \in 1..(k - 1) : ~Matches(subs[m]))
    ELSE subs

\* the list handed to save_to_file
SavePayload(subs) == subs

\* return submissions, to checker
ReturnToChecker ==
    /\ pc = "return"
    /\ mode = "batch"
    /\ pc' = "evaluate"
    /\ jobs' = Append(jobs, JobEntry(username, pid, submissions))
    /\ UNCHANGED <<argv, remote, mode, mainVars, pid, collectVars, result,
                   written, saved, xlsx, usage, runs, prevGrid>>

\* the for / else of checker
Evaluate ==
    /\ pc = "evaluate"
    /\ result' = AppendOutcome(result, username, Outcome(submissions))
    /\ pc' = "save"
    /\ UNCHANGED <<argv, remote, mode, mainVars, pid, collectVars, jobs,
                   written, saved, xlsx, usage, runs, prevGrid>>

\* scraper.save_to_file(submissions, output_file); checker returns and the
\* inner loop of main moves to the next pid
Save ==
    /\ pc = "save"
    /\ written' = Append(written, FileName(username, pid))
    /\ saved' = <<[name |-> FileName(username, pid),
                   records |-> SavePayload(submissions)]>>
    /\ j' = j + 1
    /\ pc' = "for_pid"
    /\ UNCHANGED <<argv, remote, mode, usernameFormat, counts, pids, i,
                   username, pid, collectVars, result, jobs, xlsx, usage, runs,
                   prevGrid>>

(***************************************************************************)
(* main                                                                    *)
(***************************************************************************)
\* usernameFormat+str(i) if i > 9 else usernameFormat + '0' + str(i)
MakeUsernameFromNine(fmt, n) ==
    IF n >= PadBelow THEN fmt \o Str(n) ELSE fmt \o <<"0">> \o Str(n)

MakeUsername(fmt, n) ==
    IF n > PadBelow THEN fmt \o Str(n) ELSE fmt \o <<"0">> \o Str(n)

\* pd.DataFrame.from_dict(result, orient='index', columns=pids)
Sheet(d, cols) ==
    [saved |-> TRUE, index |-> DictKeys(d), columns |-> cols,
     data |-> [n \in 1..Len(d) |-> d[n][2]]]

\* len(sys.argv) < 4
TooFewArgsByOne(a) == Len(a) < ArgvMin - 1

TooFewArgs(a) == Len(a) < ArgvMin

\* if len(sys.argv) < 4: usage; else read the arguments
MainEnter ==
    /\ pc = "main"
    /\ runs' = runs + 1
    /\ IF TooFewArgs(argv)
       THEN /\ usage' = TRUE
            /\ pc' = "done"
            /\ UNCHANGED <<usernameFormat, counts, pids, i>>
       ELSE /\ usernameFormat' = argv[2]
            /\ counts' = ParseInt(argv[3])
            /\ pids' = SubSeq(argv, 4, Len(argv))
            /\ i' = 1
            /\ pc' = "for_i"
            /\ usage' = usage
    /\ UNCHANGED <<argv, remote, mode, j, username, pid, collectVars, result,
                   jobs, written, saved, xlsx, prevGrid>>

\* for i in range(1, counts+1): username = ...; result[username] = []
ForMember ==
    /\ pc = "for_i"
    /\ IF i <= counts
       THEN /\ username' = MakeUsername(usernameFormat, i)
            /\ result' = ResetEntry(result, username')
            /\ j' = 1
            /\ pc' = "for_pid"
       ELSE /\ pc' = "to_excel"
            /\ UNCHANGED <<username, result, j>>
    /\ UNCHANGED <<argv, remote, mode, usernameFormat, counts, pids, i, pid,
                   collectVars, jobs, written, saved, xlsx, usage, runs,
                   prevGrid>>

\* for pid in pids: checker(username, pid), up to the entry of the loop of
\* scraper.fetch_submissions(username, pid, max_pages=5)
ForPid ==
    /\ pc = "for_pid"
    /\ IF j <= Len(pids)
       THEN /\ pid' = pids[j]
            /\ max_pages' = PageCap
            /\ submissions' = <<>>
            /\ page' = 1
            /\ response' = NoResponse
            /\ page_submissions' = <<>>
            /\ requests' = <<>>
            /\ received' = <<>>
            /\ delays' = 0
            /\ saved' = <<>>
            /\ pc' = "while"
            /\ i' = i
       ELSE /\ i' = i + 1
            /\ pc' = "for_i"
            /\ UNCHANGED collectVars
            /\ pid' = pid
            /\ saved' = saved
    /\ UNCHANGED <<argv, remote, mode, usernameFormat, counts, pids, j,
                   username, result, jobs, written, xlsx, usage, runs,
                   prevGrid>>

\* df = pd.DataFrame.from_dict(...); df.to_excel("result.xlsx")
ToExcel ==
    /\ pc = "to_excel"
    /\ xlsx' = Sheet(result, pids)
    /\ pc' = "done"
    /\ UNCHANGED <<argv, remote, mode, mainVars, pid, collectVars, result,
                   jobs, written, saved, usage, runs, prevGrid>>

\* main is entered again in the same process, with the same sys.argv
MainAgain ==
    /\ pc = "done"
    /\ runs < MaxRuns
    /\ prevGrid' = result
    /\ jobs' = <<>>
    /\ written' = <<>>
    /\ saved' = <<>>
    /\ usage' = FALSE
    /\ pc' = "main"
    /\ UNCHANGED <<argv, remote, mode, mainVars, pid, collectVars, result,
                   xlsx, runs>>

(***************************************************************************)
(* Runs of the batch.                                                      *)
(***************************************************************************)
Prog == <<"m", "a", "i", "n", ".", "p", "y">>
Prefix == <<"s", "t", "u">>
PidName(k) == <<"P">> \o Str(k)

\* main.py stu <n> P1 .. Pm
Argv(n, m) == <<Prog, Prefix, Str(n)>> \o [k \in 1..m |-> PidName(k)]

BatchArgv == {<<Prog>>} \cup {Argv(n, m) : n \in 0..MaxCount, m \in 0..MaxPids}
NamesArgv == {Argv(n, m) : n \in 0..MaxMembers, m \in 0..1}
RerunArgv == {Argv(n, m) : n \in 0..MaxRerunCount, m \in 0..1}

\* the (username, pid) pairs of the jobs of a command line
JobKeys(a) ==
    IF Len(a) < ArgvMin THEN {}
    ELSE {<<MakeUsername(a[2], n), a[k]>> :
             n \in 1..ParseInt(a[3]), k \in 4..Len(a)}

InitProcess ==
    /\ mode = "batch"
    /\ pc = "main"
    /\ usernameFormat = <<>>
    /\ counts = 0
    /\ pids = <<>>
    /\ i = 0
    /\ j = 0
    /\ username = <<>>
    /\ pid = <<>>
    /\ max_pages = 0
    /\ page = 0
    /\ submissions = <<>>
    /\ response = NoResponse
    /\ page_submissions = <<>>
    /\ requests = <<>>
    /\ received = <<>>
    /\ delays = 0
    /\ result = <<>>
    /\ jobs = <<>>
    /\ written = <<>>
    /\ saved = <<>>
    /\ xlsx = NoSheet
    /\ usage = FALSE
    /\ runs = 0
    /\ prevGrid = <<>>

\* one run of main.py against a judge that may answer anything of BatchPool
Init ==
    /\ argv \in BatchArgv
    /\ remote = FreeRemote(BatchPool)
    /\ InitProcess

\* one run of main.py with up to MaxMembers members
InitNames ==
    /\ argv \in NamesArgv
    /\ remote = FreeRemote(NamesPool)
    /\ InitProcess

\* runs of main against a judge whose state does not change: every request
\* has one answer
InitRerun ==
    /\ argv \in RerunArgv
    /\ remote \in {FixedRemote(f) : f \in [JobKeys(argv) -> Scripts]}
    /\ InitProcess

Next ==
    \/ MainEnter
    \/ ForMember
    \/ ForPid
    \/ WhileTest
    \/ Get
    \/ Except
    \/ ParsePage
    \/ Extend
    \/ Sleep
    \/ ReturnToChecker
    \/ Evaluate
    \/ Save
    \/ ToExcel

NextRerun ==
    \/ Next
    \/ MainAgain

Spec == Init /\ [][Next]_vars

SpecNames == InitNames /\ [][Next]_vars

SpecRerun == InitRerun /\ [][NextRerun]_vars

(***************************************************************************)
(* Properties of fetch_submissions.                                        *)
(***************************************************************************)
\* the records of the pages received before position k, in page order
RECURSIVE RecordsBefore(_, _)
RecordsBefore(rs, k) ==
    IF k <= 1 THEN <<>>
    ELSE RecordsBefore(rs, k - 1)
         \o (IF rs[k - 1].ok THEN parse_submission_page(rs[k - 1].html) ELSE <<>>)

CallOver == pc \in {"returned", "evaluate"}

\* C1 as stated: when a call of fetch_submissions is over, it has issued at
\* most max_pages requests, whatever max_pages is (0 and negative included).
C1_AtMostMaxPages == CallOver => Len(requests) <= max_pages

\* C1, amended: at every point of a call of fetch_submissions the number of
\* requests issued is at most max_pages when max_pages is positive, and zero
\* when max_pages is 0 or negative.
C1_FetchesBounded ==
    Len(requests) <= (IF max_pages > 0 THEN max_pages ELSE 0)

C1_Witness ==
    /\ mode = "collect"
    /\ pc = "returned"
    /\ max_pages = MaxPages
    /\ Len(requests) = max_pages

\* C2: a request that ends in a transport failure is the last request of the
\* call, the exception never leaves fetch_submissions, and the call returns
\* exactly the records of the pages received before the failed one.
C2_FailureAbsorbed ==
    /\ pc # "raised"
    /\ \A k \in 1..Len(received) :
          ~received[k].ok =>
             /\ k = Len(received)
             /\ Len(requests) = k
             /\ pc \in {"except", "return", "returned", "evaluate"}
             /\ submissions = RecordsBefore(received, k)

C2_Witness ==
    /\ mode = "collect"
    /\ pc = "returned"
    /\ Len(received) = 3
    /\ ~received[3].ok
    /\ Len(submissions) = 2

\* C3: every call of fetch_submissions eventually returns.
C3_Terminates == <>(pc = "returned")

\* the call that only the page cap stops: every page was non-empty and
\* advertised an enabled next page
C3_Witness ==
    /\ mode = "collect"
    /\ pc = "returned"
    /\ max_pages = MaxPages
    /\ page = max_pages + 1
    /\ Len(received) = max_pages
    /\ \A k \in 1..Len(received) :
          /\ received[k].ok
          /\ parse_submission_page(received[k].html) # <<>>
          /\ has_next_page(received[k].html)

\* C10: a successfully fetched page without records is the last request of
\* the call, and the call returns the records of the earlier pages; when page
\* 1 has no table, the call makes exactly one request and returns nothing.
C10_EmptyPageStops ==
    \A k \in 1..Len(received) :
       (received[k].ok /\ parse_submission_page(received[k].html) = <<>>) =>
          /\ k = Len(received)
          /\ Len(requests) = k
          /\ pc \in {"parse", "return", "returned", "evaluate"}
          /\ submissions = RecordsBefore(received, k)
          /\ (k = 1 /\ ~received[1].html.table /\ CallOver) =>
                (Len(requests) = 1 /\ submissions = <<>>)

C10_Witness ==
    /\ mode = "collect"
    /\ pc = "returned"
    /\ Len(received) = 2
    /\ received[2].ok
    /\ ~received[2].html.table
    /\ has_next_page(received[2].html)
    /\ submissions # <<>>

(***************************************************************************)
(* Properties of parse_submission_page.                                    *)
(***************************************************************************)
\* the rows after the header row
RowsAfterHeader(html) ==
    [k \in 1..(Len(html.rows) - 1) |-> html.rows[k + 1]]

\* the positions of the rows that have at least 7 cells
FullRows(data) == {k \in 1..Len(data) : Len(data[k]) >= 7}

\* the n-th smallest member of a set of positions
Nth(S, n) == CHOOSE k \in S : Cardinality({m \in S : m <= k}) = n

\* C9: the parser returns one record for each data row with at least 7
\* cells and none for a shorter row, in row order (so N records when all N
\* data rows have at least 7 cells), and nothing for a page without a table.
C9_ParseKeepsFullRows ==
    (mode = "parse" /\ pc # "parse") =>
       LET html == response.html
           data == RowsAfterHeader(html)
           full == FullRows(data)
       IN  IF ~html.table THEN page_submissions = <<>>
           ELSE /\ Len(page_submissions) = Cardinality(full)
                /\ \A n \in 1..Len(page_submissions) :
                      LET cols == data[Nth(full, n)]
                      IN  /\ page_submissions[n].time = GetText(cols[1])
                          /\ page_submissions[n].status = GetText(cols[5])
                          /\ page_submissions[n].time_used = GetText(cols[7])

\* a short row between two full rows: the rows around it are kept, in order
C9_Witness ==
    /\ mode = "parse"
    /\ pc = "extend"
    /\ response.html.rows = <<RowNone, RowMiss, RowShort, RowHit>>
    /\ Len(page_submissions) = 2
    /\ page_submissions[1].time = TimeStamp
    /\ page_submissions[2].time = Sentinel

(***************************************************************************)
(* Properties of checker and main.                                         *)
(***************************************************************************)
Last(s) == s[Len(s)]

BatchDone == mode = "batch" /\ pc = "done" /\ ~usage

\* C4: the bit checker records for a job is 1 if and only if at least one
\* collected record has 'time' equal to "100Accepted", and 0 otherwise (0
\* for no records).
C4_OutcomeIffSentinel ==
    pc = "save" =>
       LET bit == Last(DictGet(result, username))
       IN  /\ bit \in {0, 1}
           /\ bit = 1 <=> \E k \in 1..Len(submissions) :
                             submissions[k].time = Sentinel
           /\ submissions = <<>> => bit = 0

\* the match is not the first record, and an accepted full-score record
\* before it did not count
C4_Witness ==
    /\ pc = "save"
    /\ Len(submissions) = 2
    /\ submissions[1].status = AcceptedText
    /\ submissions[1].time # Sentinel
    /\ submissions[2].time = Sentinel
    /\ Last(DictGet(result, username)) = 1

\* C5: when a run of main with member count n and problem ids pids is over,
\* result has exactly n keys and every key maps to len(pids) values of 0 or
\* 1, the m-th being the outcome of that username's job for pids[m].
C5_GridShape ==
    BatchDone =>
       /\ counts = ParseInt(argv[3])
       /\ pids = SubSeq(argv, 4, Len(argv))
       /\ Len(result) = counts
       /\ \A a, b \in 1..Len(result) : result[a][1] = result[b][1] => a = b
       /\ Len(jobs) = counts * Len(pids)
       /\ \A n \in 1..Len(result) :
             /\ Len(result[n][2]) = Len(pids)
             /\ \A m \in 1..Len(pids) :
                   LET job == jobs[(n - 1) * Len(pids) + m]
                   IN  /\ job.username = result[n][1]
                       /\ job.pid = pids[m]
                       /\ result[n][2][m] = (IF job.matched THEN 1 ELSE 0)

C5_Witness ==
    /\ BatchDone
    /\ counts = 2
    /\ Len(pids) = 2
    /\ Len(result) = 2
    /\ result[1][2] = <<1, 0>>
    /\ result[2][2] = <<0, 1>>

\* the request of the current call that failed, if any, came before any
\* matching record was collected
FailedBeforeMatch ==
    /\ received # <<>>
    /\ ~Last(received).ok
    /\ \A k \in 1..Len(submissions) : submissions[k].time # Sentinel

\* the jobs of the command line, in the order main runs them
JobAt(n) ==
    <<MakeUsername(argv[2], ((n - 1) \div Len(pids)) + 1),
      pids[((n - 1) % Len(pids)) + 1]>>

\* C6: no transport failure aborts the batch: no exception leaves a job, the
\* jobs run are always the first jobs of the command line in order, a run
\* that is over has run all of them, and a job whose collection stopped on a
\* failure before any matching record records 0.
C6_BatchSurvivesFailures ==
    /\ pc # "raised"
    /\ \A n \in 1..Len(jobs) : <<jobs[n].username, jobs[n].pid>> = JobAt(n)
    /\ BatchDone => Len(jobs) = ParseInt(argv[3]) * (Len(argv) - 3)
    /\ (pc = "save" /\ FailedBeforeMatch) =>
          Last(DictGet(result, username)) = 0

\* the last job of a 2 x 2 batch runs although the first job failed on its
\* first page, and itself fails on its second page
C6_Witness ==
    /\ mode = "batch"
    /\ pc = "save"
    /\ Len(jobs) = 4
    /\ result[1][2][1] = 0
    /\ Len(received) = 2
    /\ FailedBeforeMatch
    /\ Last(DictGet(result, username)) = 0

TwoDigits(n) == <<DigitChars[(n \div 10) + 1], DigitChars[(n % 10) + 1]>>

\* C7: the usernames are generated for i = 1, 2, .. in ascending order, and
\* the i-th is the prefix followed by "0" and the digit of i when i <= 9, and
\* the prefix followed by the two digits of i when 10 <= i <= 99; a run that
\* is over has generated member_count of them.
C7_Usernames ==
    /\ \A n \in 1..Len(result) :
          /\ n < 100
          /\ result[n][1] = argv[2] \o TwoDigits(n)
          /\ n >= 10 => result[n][1][Len(argv[2]) + 1] # "0"
    /\ pc \in {"for_pid", "while", "get", "except", "parse", "extend", "sleep",
               "return", "evaluate", "save"} =>
          (i = Len(result) /\ username = result[i][1])
    /\ BatchDone => Len(result) = ParseInt(argv[3])

C7_Witness ==
    /\ BatchDone
    /\ counts = 12
    /\ DictKeys(result) =
          [n \in 1..12 |->
              Prefix \o (IF n <= 9 THEN <<"0">> \o Str(n) ELSE Str(n))]
    /\ result[9][1] = <<"s", "t", "u", "0", "9">>
    /\ result[10][1] = <<"s", "t", "u", "1", "0">>
    /\ result[12][1] = <<"s", "t", "u", "1", "2">>

\* C8: a second run of main in the same process, with the same arguments
\* and a judge that answers every request as before, ends with the same
\* result (same keys in the same order, same outcomes) and the same sheet.
C8_RerunSameGrid ==
    (mode = "batch" /\ pc = "done" /\ runs >= 2) =>
       /\ result = prevGrid
       /\ ~usage => xlsx = Sheet(prevGrid, pids)

C8_Witness ==
    /\ mode = "batch"
    /\ pc = "done"
    /\ runs = 2
    /\ Len(result) = 2
    /\ result[1][2] = <<1>>
    /\ result[2][2] = <<0>>
    /\ result = prevGrid

(***************************************************************************)
(* Properties of the delay and of the end of the pages.                    *)
(***************************************************************************)
\* C11: a call of fetch_submissions waits only between two requests: when it
\* is over, the number of time.sleep(1) it made is the number of its
\* requests minus one, and zero when it made no request.
C11_DelaysBetweenFetches ==
    CallOver =>
       delays = (IF Len(requests) = 0 THEN 0 ELSE Len(requests) - 1)

\* an anchor whose text is exactly "Next" and that has no "disabled" class
EnabledNext(html) ==
    \E k \in 1..Len(html.anchors) :
       /\ html.anchors[k].text = "Next"
       /\ "disabled" \notin html.anchors[k].class

\* C12: has_next_page is true if and only if the page holds an anchor whose
\* text is exactly "Next" and that has no "disabled" class, also when the
\* page holds several "Next" anchors of which only some are disabled: the
\* loop goes on to the next page exactly for these pages.
C12_HasNextIffEnabledNext ==
    [][pc = "extend" => (pc' = "sleep" <=> EnabledNext(response.html))]_vars

\* C13: a successfully fetched page with records and without an enabled
\* "Next" anchor is the last request of the call, whatever max_pages is, and
\* the call returns the records up to and including those of that page.
C13_LastPageStops ==
    \A k \in 1..Len(received) :
       ( /\ received[k].ok
         /\ parse_submission_page(received[k].html) # <<>>
         /\ ~EnabledNext(received[k].html) ) =>
          /\ k = Len(received)
          /\ Len(requests) = k
          /\ pc \in {"parse", "extend", "return", "returned", "evaluate"}
          /\ pc \in {"return", "returned", "evaluate"} =>
                submissions = RecordsBefore(received, k + 1)

\* the second of up to MaxPages pages has a disabled "Next" anchor
C13_Witness ==
    /\ mode = "collect"
    /\ pc = "returned"
    /\ max_pages = MaxPages
    /\ Len(received) = 2
    /\ page = 2
    /\ received[2].ok
    /\ received[2].html.anchors = <<PrevOn, NextOff>>
    /\ Len(submissions) = 2

\* C14: the list a call returns is the concatenation, in page order, of the
\* records parsed from the pages it fetched successfully, each page's
\* records in row order: nothing dropped, duplicated or reordered.
C14_ReturnsConcatenation ==
    pc \in {"return", "returned", "evaluate"} =>
       submissions = RecordsBefore(received, Len(received) + 1)

C14_Witness ==
    /\ mode = "collect"
    /\ pc = "returned"
    /\ Len(received) = 3
    /\ \A k \in 1..3 : received[k].ok
    /\ Len(submissions) = 3
    /\ submissions[1].time = TimeStamp
    /\ submissions[2].time = Sentinel
    /\ submissions[3].time = TimeStamp

(***************************************************************************)
(* Properties of the grid during a run.                                    *)
(***************************************************************************)
\* the positions between the entry of the inner loop and the end of a job
InMember ==
    pc \in {"for_pid", "while", "get", "except", "parse", "extend", "sleep",
            "return", "evaluate", "save"}

IsPrefix(s, t) == Len(s) <= Len(t) /\ \A n \in 1..Len(s) : s[n] = t[n]

\* the grid holds the first members, all complete but the current one, whose
\* length is the number of its jobs whose outcome is recorded
GridIsPrefix ==
    mode = "batch" /\ ~usage /\ pc # "main" =>
       /\ Len(result) = (IF InMember THEN i
                         ELSE IF pc = "for_i" THEN i - 1 ELSE counts)
       /\ \A n \in 1..Len(result) :
             /\ result[n][1] = MakeUsername(usernameFormat, n)
             /\ Len(result[n][2]) =
                   (IF InMember /\ n = i
                    THEN (IF pc = "save" THEN j ELSE j - 1)
                    ELSE Len(pids))
       /\ \A n \in (Len(result) + 1)..counts :
             ~DictHas(result, MakeUsername(usernameFormat, n))

\* no step removes a key, moves it, or changes an outcome already recorded
GridOnlyGrows ==
    \A n \in 1..Len(result) :
       /\ Len(result') >= n
       /\ result'[n][1] = result[n][1]
       /\ IsPrefix(result[n][2], result'[n][2])

\* C15: at every point of a batch run the grid is a prefix of the final grid
\* in job order: the usernames before the current one are complete, the
\* current one has one outcome per job of its own done so far, the usernames
\* not yet started are absent, and a recorded outcome is never changed or
\* removed later.
C15_GridGrowsInJobOrder == []GridIsPrefix /\ [][GridOnlyGrows]_vars

C15_Witness ==
    /\ mode = "batch"
    /\ pc = "get"
    /\ counts = 2
    /\ i = 2
    /\ j = 2
    /\ result[1][2] = <<0, 1>>
    /\ result[2][2] = <<1>>

(***************************************************************************)
(* Properties of the jobs of a batch.                                      *)
(***************************************************************************)
\* a call of fetch_submissions has been entered and checker has not yet
\* taken its result
InCall == pc \in {"while", "get", "except", "parse", "extend", "sleep", "return"}

\* the number of calls of fetch_submissions entered since main began
CallsStarted == Len(jobs) + (IF InCall THEN 1 ELSE 0)

\* C16: in a batch every job is collected with page cap 5 and makes at most
\* 5 requests, and at most member_count * len(pids) collections are ever
\* started, so that a run makes at most 5 * member_count * len(pids)
\* requests.
C16_FiveRequestsPerJob ==
    mode = "batch" =>
       /\ Len(requests) <= 5
       /\ (InCall \/ pc \in {"evaluate", "save"}) => max_pages = 5
       /\ CallsStarted <= counts * Len(pids)

\* the last job of a 2 x 2 batch has made its fifth request
C16_Witness ==
    /\ mode = "batch"
    /\ pc = "return"
    /\ counts = 2
    /\ Len(pids) = 2
    /\ CallsStarted = 4
    /\ Len(requests) = 5
    /\ page = 6

FinishedJobs == Len(jobs) - (IF pc \in {"evaluate", "save"} THEN 1 ELSE 0)

\* C17: save_to_file is called exactly once per job, after the job's bit is
\* recorded, with all the records collected for the job (not only those up to
\* the first match), under a name made of the username and the problem id;
\* also when the collection is empty or was cut short.
C17_ReportOncePerJob ==
    mode = "batch" =>
       /\ Len(written) = FinishedJobs
       /\ \A n \in 1..Len(written) :
             written[n] =
                <<"s", "u", "b", "m", "i", "s", "s", "i", "o", "n", "s", "_">>
                \o jobs[n].username \o <<"_">> \o jobs[n].pid
                \o <<".", "j", "s", "o", "n">>
       /\ Len(saved) <= 1
       /\ pc = "save" =>
             (saved = <<>> /\ Len(DictGet(result, username)) = j)
       /\ saved # <<>> =>
             /\ pc \in {"for_pid", "for_i", "to_excel", "done"}
             /\ saved[1].name = Last(written)
             /\ saved[1].records = RecordsBefore(received, Len(received) + 1)
             /\ Len(DictGet(result, username)) = j - 1

\* the report of a job whose first record matched holds the later record too
C17_Witness ==
    /\ mode = "batch"
    /\ pc = "for_pid"
    /\ saved # <<>>
    /\ Len(saved[1].records) = 2
    /\ saved[1].records[1].time = Sentinel
    /\ saved[1].records[2].time = TimeStamp
    /\ saved[1].name =
          <<"s", "u", "b", "m", "i", "s", "s", "i", "o", "n", "s", "_", "s",
            "t", "u", "0", "1", "_", "P", "2", ".", "j", "s", "o", "n">>

\* C18: the requests of one call ask for the pages 1, 2, .., k in this
\* order, each one page after the one before, all for the same username and
\* problem id; every call, in a batch every job, starts at page 1 with an
\* empty accumulator.
C18_PagesInOrder ==
    /\ (InCall \/ pc \in {"evaluate", "save", "returned"}) =>
          \A n \in 1..Len(requests) :
             requests[n] = [uidOrName |-> username, pid |-> pid, page |-> n]
    /\ pc = "get" => page = Len(requests) + 1
    /\ (InCall /\ requests = <<>>) => (page = 1 /\ submissions = <<>>)

\* the second job of a batch, after a first job that collected records, asks
\* for its third page
C18_Witness ==
    /\ mode = "batch"
    /\ Len(jobs) = 1
    /\ jobs[1].matched
    /\ pc = "parse"
    /\ Len(requests) = 3
    /\ requests[3] = [uidOrName |-> <<"s", "t", "u", "0", "1">>,
                      pid |-> <<"P", "2">>, page |-> 3]

\* C19: a job of username u appends exactly one value to u's outcomes and
\* changes neither the outcomes of another username nor the keys, whatever
\* it collected; no other step of the job writes to the grid.
C19_JobAppendsOneBit ==
    [][(mode = "batch" /\ (InCall \/ pc \in {"evaluate", "save"})) =>
          IF pc = "evaluate"
          THEN /\ DictKeys(result') = DictKeys(result)
               /\ \E b \in {0, 1} :
                     DictGet(result', username) =
                        Append(DictGet(result, username), b)
               /\ \A n \in 1..Len(result) :
                     result[n][1] # username => result'[n] = result[n]
          ELSE result' = result]_vars

\* the second username's first job is evaluated while the first username
\* holds two outcomes
C19_Witness ==
    /\ mode = "batch"
    /\ pc = "save"
    /\ i = 2
    /\ j = 1
    /\ result[1][2] = <<1, 1>>
    /\ result[2][2] = <<0>>
    /\ submissions # <<>>

\* C20: with fewer than 3 positional arguments main prints the usage line
\* and ends: no request is made, no key is added to the grid, no report file
\* and no sheet is written.
C20_UsageOnly ==
    (mode = "batch" /\ Len(argv) < 4) =>
       /\ pc \in {"main", "done"}
       /\ pc = "done" => usage
       /\ requests = <<>>
       /\ result = <<>>
       /\ written = <<>>
       /\ saved = <<>>
       /\ ~xlsx.saved

\* prefix and member count given, no problem id
C20_Witness ==
    /\ mode = "batch"
    /\ pc = "done"
    /\ usage
    /\ Len(argv) = 3
    /\ argv[3] = <<"2">>

====
